---- MODULE Spec2Model ----
(***************************************************************************)
(* Ninedraft (src/app.py, version 1.1.0, and src/app_v1.0.py): the world   *)
(* interaction engine.  Mining, placing, picking up dropped items, the     *)
(* bee's periodic decision and the recipe tables.                          *)
(*                                                                         *)
(* Numbers: food and health are kept in tenths (0.5 is 5, 0.2 is 2), break *)
(* times in hundredths of a second (0.75 is 75), positions in pixels.      *)
(* Absent values (None) are records or strings named "none".               *)
(***************************************************************************)
EXTENDS Integers, Sequences, FiniteSets, TLC

(***************************************************************************)
(* Bounds of the model.                                                    *)
(***************************************************************************)
NumCells == 2
MaxDur == 2
MaxQty == 2
MaxSteps == 4
NumBees == 2
MaxBeeSteps == 16
MaxPlaced == 3
MaxDrops == 10
MaxIds == 3
HotbarColumns == 4
InventorySlots == 2

(***************************************************************************)
(* Program constants.                                                      *)
(***************************************************************************)
BLOCK_SIZE == 32
FOOD_COST == 5
FOOD_COST_V10 == 2
HEALTH_COST == 10
BEE_DAMAGE == 5
BEE_PERIOD == 15
BEES_PER_HIVE == 5
BEE_SPREAD == 40
HONEY_RANGE == 200
MAX_FOOD == 200
MAX_HEALTH == 200
MAX_STACK == 64
MINE_SCALE == 1500
MINE_THRESHOLD == 10
SHEEP_PERIOD == 40
SHEEP_PUSH == 150
SHEEP_HOP == 30
JUMP_SPEED == 300

Versions == {"v11", "v10"}

Abs(n) == IF n < 0 THEN -n ELSE n
Min(a, b) == IF a < b THEN a ELSE b
Max(a, b) == IF a < b THEN b ELSE a

(***************************************************************************)
(* Identifier tables of app.py.                                            *)
(***************************************************************************)
BLOCK_ITEMS == {"dirt", "wood", "stone", "wool", "honey", "hive", "plank",
                "crafting_table", "furnace", "iron_ore", "gold_ore"}

FoodStrength(id) ==
    CASE id = "apple" -> 20
      [] id = "cooked_apple" -> 40
      [] id = "burnt_apple" -> -20
      [] id = "golden_apple" -> 200
      [] id = "infinity_apple" -> 990
      [] OTHER -> 0

FOOD_ITEMS == {"apple", "cooked_apple", "burnt_apple", "golden_apple", "infinity_apple"}

SIMPLE_ITEMS == {"stick", "charcoal", "sweater", "iron_ingot", "gold_ingot", "apple_seed"}

MATERIAL_TOOL_TYPES == {"axe", "shovel", "pickaxe", "sword"}
TOOL_MATERIALS == {"wood", "stone", "iron", "diamond", "golden"}

\* f"{item_id[1]}_{item_id[0]}"
ToolName(type, material) ==
    CASE type = "axe" ->
           (CASE material = "wood" -> "wood_axe" [] material = "stone" -> "stone_axe"
              [] material = "iron" -> "iron_axe" [] material = "diamond" -> "diamond_axe"
              [] OTHER -> "golden_axe")
      [] type = "shovel" ->
           (CASE material = "wood" -> "wood_shovel" [] material = "stone" -> "stone_shovel"
              [] material = "iron" -> "iron_shovel" [] material = "diamond" -> "diamond_shovel"
              [] OTHER -> "golden_shovel")
      [] type = "pickaxe" ->
           (CASE material = "wood" -> "wood_pickaxe" [] material = "stone" -> "stone_pickaxe"
              [] material = "iron" -> "iron_pickaxe" [] material = "diamond" -> "diamond_pickaxe"
              [] OTHER -> "golden_pickaxe")
      [] OTHER ->
           (CASE material = "wood" -> "wood_sword" [] material = "stone" -> "stone_sword"
              [] material = "iron" -> "iron_sword" [] material = "diamond" -> "diamond_sword"
              [] OTHER -> "golden_sword")

Tools == { [id |-> ToolName(t, m), type |-> t, material |-> m] :
              t \in MATERIAL_TOOL_TYPES, m \in TOOL_MATERIALS }
ToolIds == { t.id : t \in Tools }
ToolOf(id) == CHOOSE t \in Tools : t.id = id

\* TOOL_DURABILITIES[material]: the durability a new tool starts with.
ToolDurability(material) == MaxDur

(***************************************************************************)
(* create_item: the item factory.  ids is the argument tuple.  The result  *)
(* is the item made, or the error raised.                                  *)
(***************************************************************************)
NoItem == [cls |-> "none", id |-> "none", dur |-> 0, maxdur |-> 0, err |-> "none"]
ItemErr(e) == [NoItem EXCEPT !.err = e]
MkItem(c, i) == [NoItem EXCEPT !.cls = c, !.id = i]
MkTool(i, d) == [NoItem EXCEPT !.cls = "ToolItem", !.id = i, !.dur = d, !.maxdur = d]

create_item_v11(ids) ==
    IF Len(ids) = 2 /\ ids[1] \in MATERIAL_TOOL_TYPES /\ ids[2] \in TOOL_MATERIALS
    THEN MkTool(ToolName(ids[1], ids[2]), ToolDurability(ids[2]))
    ELSE IF Len(ids) = 1 /\ ids[1] = "hands" THEN MkItem("HandItem", "hands")
    ELSE IF Len(ids) = 1 /\ ids[1] \in BLOCK_ITEMS THEN MkItem("BlockItem", ids[1])
    ELSE IF Len(ids) = 1 /\ ids[1] \in FOOD_ITEMS THEN MkItem("FoodItem", ids[1])
    ELSE IF Len(ids) = 1 /\ ids[1] \in SIMPLE_ITEMS THEN MkItem("SimpleItem", ids[1])
    ELSE ItemErr("KeyError")

create_item_v10(ids) ==
    IF Len(ids) = 2 /\ ids[1] \in MATERIAL_TOOL_TYPES /\ ids[2] \in TOOL_MATERIALS
    THEN ItemErr("NotImplementedError")
    ELSE IF Len(ids) = 1 /\ ids[1] = "hands" THEN MkItem("HandItem", "hands")
    ELSE IF Len(ids) = 1 /\ ids[1] \in {"dirt", "wood", "stone"} THEN MkItem("BlockItem", ids[1])
    ELSE IF Len(ids) = 1 /\ ids[1] = "apple" THEN MkItem("FoodItem", ids[1])
    ELSE ItemErr("KeyError")

create_item(v, ids) == IF v = "v11" THEN create_item_v11(ids) ELSE create_item_v10(ids)

(***************************************************************************)
(* Break tables.  ADDITIONAL_BREAK_TABLES of app.py gives, per block, the  *)
(* tool type that breaks it and per material (or the hand) the base time   *)
(* and the flag of the correct tool.                                       *)
(***************************************************************************)
\* A row read with the hand's time and the wood tool's time exchanged.
Times_hand_second(h, w, s, i, d, g) ==
    [hand |-> w, wood |-> h, stone |-> s, iron |-> i, diamond |-> d, golden |-> g]

Times(h, w, s, i, d, g) ==
    [hand |-> h, wood |-> w, stone |-> s, iron |-> i, diamond |-> d, golden |-> g]
Flags(h, w, s, i, d, g) ==
    [hand |-> h, wood |-> w, stone |-> s, iron |-> i, diamond |-> d, golden |-> g]

ADDITIONAL_BREAK_TABLES ==
    [plank          |-> [type |-> "axe", time |-> Times(300, 150, 75, 50, 40, 25),
                         ok |-> Flags(TRUE, TRUE, TRUE, TRUE, TRUE, TRUE)],
     crafting_table |-> [type |-> "axe", time |-> Times(300, 150, 75, 50, 40, 25),
                         ok |-> Flags(TRUE, TRUE, TRUE, TRUE, TRUE, TRUE)],
     furnace        |-> [type |-> "pickaxe", time |-> Times(750, 115, 60, 40, 30, 20),
                         ok |-> Flags(FALSE, TRUE, TRUE, TRUE, TRUE, TRUE)],
     wool           |-> [type |-> "none", time |-> Times(50, 0, 0, 0, 0, 0),
                         ok |-> Flags(TRUE, FALSE, FALSE, FALSE, FALSE, FALSE)],
     honey          |-> [type |-> "shovel", time |-> Times(300, 150, 75, 50, 40, 25),
                         ok |-> Flags(TRUE, TRUE, TRUE, TRUE, TRUE, TRUE)],
     hive           |-> [type |-> "axe", time |-> Times(300, 150, 75, 50, 40, 25),
                         ok |-> Flags(FALSE, FALSE, FALSE, FALSE, FALSE, FALSE)],
     iron_ore       |-> [type |-> "pickaxe", time |-> Times(750, 350, 100, 50, 30, 20),
                         ok |-> Flags(FALSE, FALSE, TRUE, TRUE, TRUE, TRUE)],
     gold_ore       |-> [type |-> "pickaxe", time |-> Times(750, 350, 100, 50, 30, 20),
                         ok |-> Flags(FALSE, FALSE, TRUE, TRUE, TRUE, TRUE)]]

\* BREAK_TABLES of block.py, before app.py adds its own: the blocks of the
\* world loader, and the tables the leaf and mayhem blocks carry themselves.
LIBRARY_BREAK_TABLES ==
    [dirt   |-> [type |-> "shovel", time |-> Times(75, 40, 40, 40, 40, 40),
                 ok |-> Flags(TRUE, TRUE, TRUE, TRUE, TRUE, TRUE)],
     wood   |-> [type |-> "axe", time |-> Times(300, 150, 75, 50, 40, 25),
                 ok |-> Flags(TRUE, TRUE, TRUE, TRUE, TRUE, TRUE)],
     stone  |-> [type |-> "pickaxe", time |-> Times(750, 115, 60, 40, 30, 20),
                 ok |-> Flags(FALSE, TRUE, TRUE, TRUE, TRUE, TRUE)],
     leaf   |-> [type |-> "none", time |-> Times(35, 0, 0, 0, 0, 0),
                 ok |-> Flags(TRUE, FALSE, FALSE, FALSE, FALSE, FALSE)],
     mayhem |-> [type |-> "none", time |-> Times(125, 0, 0, 0, 0, 0),
                 ok |-> Flags(TRUE, FALSE, FALSE, FALSE, FALSE, FALSE)]]

\* The keys of BREAK_TABLES after "BREAK_TABLES.update" (app.py only).
BreakTableKeys(v) ==
    IF v = "v11" THEN {"dirt", "wood", "stone"} \cup DOMAIN ADDITIONAL_BREAK_TABLES
    ELSE {"dirt", "wood", "stone"}

BreakTable(id) ==
    IF id \in DOMAIN ADDITIONAL_BREAK_TABLES THEN ADDITIONAL_BREAK_TABLES[id]
    ELSE LIBRARY_BREAK_TABLES[id]

(***************************************************************************)
(* create_block: the block factory.                                        *)
(***************************************************************************)
NoBlock == [cls |-> "none", id |-> "none", hp |-> 0, err |-> "none"]
BlockErr(e) == [NoBlock EXCEPT !.err = e]
MkBlock(c, i) == [NoBlock EXCEPT !.cls = c, !.id = i]

create_block_v11(ids) ==
    IF Len(ids) = 1 THEN
        IF ids[1] = "leaf" THEN MkBlock("LeafBlock", "leaf")
        ELSE IF ids[1] = "crafting_table" THEN MkBlock("CraftingTableBlock", ids[1])
        ELSE IF ids[1] = "hive" THEN MkBlock("HiveBlock", ids[1])
        ELSE IF ids[1] = "furnace" THEN MkBlock("FurnaceBlock", ids[1])
        ELSE IF ids[1] \in BreakTableKeys("v11") THEN MkBlock("ResourceBlock", ids[1])
        ELSE BlockErr("KeyError")
    ELSE IF Len(ids) = 0 THEN BlockErr("IndexError")
    ELSE IF ids[1] = "mayhem" THEN MkBlock("TrickCandleFlameBlock", "mayhem")
    ELSE BlockErr("KeyError")

create_block_v10(ids) ==
    IF Len(ids) = 1 THEN
        IF ids[1] = "leaf" THEN MkBlock("LeafBlock", "leaf")
        ELSE IF ids[1] \in BreakTableKeys("v10") THEN MkBlock("ResourceBlock", ids[1])
        ELSE IF ids[1] = "crafting_table" THEN BlockErr("NameError")
        ELSE BlockErr("KeyError")
    ELSE IF Len(ids) = 0 THEN BlockErr("IndexError")
    ELSE IF ids[1] = "mayhem" THEN MkBlock("TrickCandleFlameBlock", "mayhem")
    ELSE BlockErr("KeyError")

create_block(v, ids) == IF v = "v11" THEN create_block_v11(ids) ELSE create_block_v10(ids)

(***************************************************************************)
(* Items: the capabilities the commands read.                              *)
(***************************************************************************)
Hands == MkItem("HandItem", "hands")

\* ToolItem.can_attack / FoodItem.can_attack; every other item can attack.
can_attack(item) ==
    CASE item.cls = "ToolItem" -> item.dur > 0
      [] item.cls = "FoodItem" -> FALSE
      [] OTHER -> TRUE

\* ToolItem.reduce_durability
reduce_durability(item, damage) == [item EXCEPT !.dur = item.dur - damage]

\* attack with the flag read the other way round: the tool wears on the
\* swings that succeed.
attack_inverted(item, successful) ==
    IF item.cls = "ToolItem" /\ successful THEN reduce_durability(item, 1) ELSE item

\* ToolItem.attack; the hand's attack changes nothing.
attack(item, successful) ==
    IF item.cls = "ToolItem" /\ ~successful THEN reduce_durability(item, 1) ELSE item

\* BlockItem.place (item.py): the block of the item's own kind.
BlockItem_place(item) == << <<"block", <<item.id>> >> >>

\* place(): the drops of using the held item.  A drop is <<category, payload>>.
\* FoodItem.place names its effect, ToolItem.place returns None.
place(item) ==
    CASE item.cls = "FoodItem" -> << <<"effect", <<"food", FoodStrength(item.id)>> >> >>
      [] item.cls = "BlockItem" -> BlockItem_place(item)
      [] OTHER -> << >>

(***************************************************************************)
(* Block.mine and Block.is_mined (block.py): the entry of the break table  *)
(* for the effective item, the hand's when the item has none; progress     *)
(* grows by a rate inverse to the base time, larger with a better luck     *)
(* draw, and the block is mined once it reaches the threshold.             *)
(***************************************************************************)
Lucks == {0, 1}

BreakKey(block, item) ==
    IF item.cls = "ToolItem" /\ ToolOf(item.id).type = BreakTable(block.id).type
    THEN ToolOf(item.id).material ELSE "hand"

BaseTime(block, item) == BreakTable(block.id).time[BreakKey(block, item)]
Suitable(block, item) == BreakTable(block.id).ok[BreakKey(block, item)]

MineRate(block, item, luck) == (MINE_SCALE * (1 + luck)) \div BaseTime(block, item)

mine(block, item, luck) ==
    [block EXCEPT !.hp = Min(MINE_THRESHOLD, block.hp + MineRate(block, item, luck))]

is_mined(block) == block.hp >= MINE_THRESHOLD

(***************************************************************************)
(* get_drops.  The crafting table, the furnace and the hive (app.py) each  *)
(* name one drop.  A resource block (block.py) drops itself when the       *)
(* suitable tool was used.  The leaf and mayhem blocks bring their own     *)
(* get_drops from block.py: any declared sequence of drops, which may name *)
(* a category or an item app.py does not know.                             *)
(***************************************************************************)
LibraryDrops ==
    { << >>,
      << <<"item", <<"apple">> >> >>,
      << <<"item", <<"apple">> >>, <<"item", <<"leaves">> >> >>,
      << <<"item", <<"apple">> >>, <<"gem", <<"ruby">> >> >>,
      << <<"block", <<"mayhem", "1">> >> >> }

get_drops(block, luck, correct_item_used) ==
    CASE block.cls = "CraftingTableBlock" -> { << <<"item", <<"crafting_table">> >> >> }
      [] block.cls = "FurnaceBlock" -> { << <<"item", <<"furnace">> >> >> }
      [] block.cls = "HiveBlock" -> { << <<"bee", <<"honey">> >> >> }
      [] block.cls = "ResourceBlock" ->
           IF correct_item_used THEN { << <<"item", <<block.id>> >> >> } ELSE { << >> }
      [] OTHER -> LibraryDrops

(***************************************************************************)
(* The state.                                                              *)
(***************************************************************************)
VARIABLES
    version,          \* which application runs: app.py ("v11") or app_v1.0.py
    grid,             \* World: cell -> block (NoBlock: the cell is empty)
    items,            \* World: the dropped items (where they lie is the physics engine's)
    bees,             \* World: how many bees were added by mined hives
    hotbar,           \* Ninedraft._hot_bar: slot -> stack
    selected,         \* the selected hotbar slot, 0 when none is
    inventory,        \* Ninedraft._inventory: slot -> stack
    food,             \* Player: food, in tenths
    health,           \* Player: health, in tenths
    playerPos,        \* Player: the cell the player is in
    targetPos,        \* Ninedraft._target_position (its cell)
    targetInRange,    \* Ninedraft._target_in_range
    craftingWindow,   \* Ninedraft._crafting_window: "none", "craft" or "furnace"
    last,             \* the last command: what it was given, did and raised
    steps,            \* how many commands ran so far
    mobs,             \* World: the bees followed one by one (position, step counter)
    playerXY,         \* Player: the position in pixels, as the mobs read it
    turn,             \* World.step: 0 before the physics, k when mob k steps next
    crafter,          \* the context of the GridCrafter of the crafting window
    craftGrid,        \* GridCrafter: the input grid, rows of item ids or "None"
    craftOut,         \* GridCrafter: the stack the last craft produced
    call              \* a function of the program called on its own: inputs and result

vars == <<version, grid, items, bees, hotbar, selected, inventory, food, health,
          playerPos, targetPos, targetInRange, craftingWindow, last, steps,
          mobs, playerXY, turn, crafter, craftGrid, craftOut, call>>

Cells == 0 .. NumCells - 1

\* No function is called on its own.
NoCall == [fn |-> "none", args |-> << >>, out |-> << >>, done |-> FALSE]
\* The hotbar has 10 columns and the inventory 3 rows of 10: the model keeps
\* the first HotbarColumns and InventorySlots of them.
HotbarSlots == 1 .. HotbarColumns
InventoryCells == 1 .. InventorySlots

NoStack == [item |-> NoItem, qty |-> 0]
Stack(item, qty) == [item |-> item, qty |-> qty]

\* Item.get_max_stack_size: a tool is Item(item_id, 1); other items stack.
MaxStackSize(item) == IF item.cls = "ToolItem" THEN 1 ELSE MAX_STACK

(***************************************************************************)
(* Grid.add_item (grid.py): the item joins the first stack of its kind     *)
(* that has room, else the first empty cell; refused when there is none.   *)
(***************************************************************************)
RoomFor(g, item) ==
    { k \in DOMAIN g : g[k].qty > 0 /\ g[k].item.id = item.id /\ g[k].qty < MaxStackSize(item) }
EmptyCells(g) == { k \in DOMAIN g : g[k].qty = 0 }
LeastOf(S) == CHOOSE k \in S : \A j \in S : k <= j

CanAdd(g, item) == RoomFor(g, item) /= {} \/ EmptyCells(g) /= {}

add_item(g, item) ==
    IF RoomFor(g, item) /= {}
    THEN [g EXCEPT ![LeastOf(RoomFor(g, item))].qty = @ + 1]
    ELSE IF EmptyCells(g) /= {}
    THEN [g EXCEPT ![LeastOf(EmptyCells(g))] = Stack(item, 1)]
    ELSE g

(***************************************************************************)
(* Player.change_food / change_health (player.py): kept within 0..max.     *)
(***************************************************************************)
change_food(f, change) == Max(0, Min(MAX_FOOD, f + change))
change_health(h, change) == Max(0, Min(MAX_HEALTH, h + change))

(***************************************************************************)
(* positions_in_range with the range of the held item (core.py, item.py):  *)
(* every item reaches the neighbouring cell.                               *)
(***************************************************************************)
get_attack_range(item) == 1

positions_in_range(p, t, cells) == Abs(p - t) * BLOCK_SIZE <= cells * BLOCK_SIZE

\* World.grid_to_xy_centre: the pixel at the centre of a cell of the row.
CentreX(c) == c * BLOCK_SIZE + BLOCK_SIZE \div 2
CentreY == BLOCK_SIZE \div 2
\* World.xy_to_grid
CellOf(x) == x \div BLOCK_SIZE

(***************************************************************************)
(* Ninedraft.get_holding: <<active item, effective item>>.                 *)
(***************************************************************************)
get_selected_value(hb, sel) == IF sel = 0 THEN NoStack ELSE hb[sel]

ActiveItem(hb, sel) ==
    IF get_selected_value(hb, sel).qty > 0 THEN get_selected_value(hb, sel).item ELSE Hands

\* The effective item taken to be the active item, whatever it can do.
EffectiveItem_active(hb, sel) == ActiveItem(hb, sel)

EffectiveItem(hb, sel) ==
    IF can_attack(ActiveItem(hb, sel)) THEN ActiveItem(hb, sel) ELSE Hands

get_holding(hb, sel) == <<ActiveItem(hb, sel), EffectiveItem(hb, sel)>>

\* Whether the effective item is the object held in the selected slot.
HoldsEffective(hb, sel) ==
    get_selected_value(hb, sel).qty > 0 /\ can_attack(get_selected_value(hb, sel).item)

\* Ninedraft.check_target
check_target(hb, sel, p, t) ==
    positions_in_range(p, t, get_attack_range(get_holding(hb, sel)[1]))

(***************************************************************************)
(* The state after construction, and after some earlier play: the player   *)
(* may have mined until little food is left, filled hotbar and inventory,  *)
(* used up all but one or MaxQty units of each starting stack, and crafted *)
(* a tool (app.py).                                                        *)
(***************************************************************************)
\* What is kept of the last command: op, the error it raised (err), what it
\* returned or placed (ret), the attack flag of a mining attempt (flag) and
\* whether it left the block mined, who took a collided item (took), the
\* cell or item index it was about, the drops resolved and how many of them
\* were handled (done); and of the state before it: the player's stats, the
\* effective item (eff), the block (block), the selected stack (stack), the
\* hotbar, inventory and dropped items, and the collided item (item).  For a
\* block mined: the luck handed to mine (mineargs), the suitability flag mine
\* returned (suitable) and the arguments handed to get_drops (dropargs).
\* stacked: the command added a block to a cell that held one.  aim: the
\* position a bee steered to on its step.
NoLast == [op |-> "init", err |-> "none", ret |-> "none", flag |-> "none",
           mined |-> FALSE, took |-> "none", food |-> 0, health |-> 0,
           cell |-> 0, drops |-> << >>, done |-> 0,
           eff |-> NoItem, block |-> NoBlock, stack |-> NoStack,
           hb |-> << >>, inv |-> << >>, items |-> << >>, item |-> NoItem,
           bsteps |-> 0, bpos |-> <<0, 0>>, ppos |-> <<0, 0>>,
           mineargs |-> << >>, suitable |-> FALSE, dropargs |-> << >>,
           stacked |-> FALSE, aim |-> << >>]

\* <<food, health>>: untouched, food used up, and nearly dead as well (the
\* latter two for a player who has gathered nothing yet).
InitStats == {<<MAX_FOOD, MAX_HEALTH>>, <<0, MAX_HEALTH>>, <<0, BEE_DAMAGE>>}

StartingHotbar(v, low) ==
    IF v = "v11"
    THEN << Stack(create_item(v, <<"dirt">>), IF low THEN 1 ELSE MaxQty),
            Stack(create_item(v, <<"apple">>), IF low THEN 1 ELSE MaxQty),
            Stack(create_item(v, <<"honey">>), IF low THEN 1 ELSE MaxQty) >>
    ELSE << Stack(create_item(v, <<"dirt">>), IF low THEN 1 ELSE MaxQty),
            Stack(create_item(v, <<"apple">>), IF low THEN 1 ELSE MaxQty) >>

Filler(v) == Stack(create_item(v, <<"stone">>), MAX_STACK)

InitHotbar(v, low, full, tool, wear) ==
    [k \in HotbarSlots |->
        IF k <= Len(StartingHotbar(v, low)) THEN StartingHotbar(v, low)[k]
        ELSE IF k = Len(StartingHotbar(v, low)) + 1 /\ tool /= "none"
        THEN Stack(reduce_durability(create_item(v, <<tool, "wood">>), wear), 1)
        ELSE IF full THEN Filler(v)
        ELSE NoStack]

InitInventory(v, full) ==
    [k \in InventoryCells |->
        IF full THEN Filler(v)
        ELSE IF k = 1
        THEN (IF v = "v11" THEN Stack(MkItem("Item", "wood"), 10)
              ELSE Stack(MkItem("Item", "oak_wood"), 1))
        ELSE NoStack]

\* The tool earlier crafting has put next to the starting stacks, if any.
InitTools == {"none", "pickaxe"}

\* How far earlier swings have worn that tool: new, one swing from broken, or
\* broken.
InitWear == {0, MaxDur - 1, MaxDur}

\* Which of hotbar and inventory earlier play has filled.
Fills(v) == IF v = "v11" THEN {"none", "hotbar", "both"} ELSE {"none", "both"}

\* load_simple_world and earlier placements: what a cell of the row may hold.
InitKinds(v) == IF v = "v11" THEN {"leaf", "crafting_table", "stone"} ELSE {"leaf", "stone"}

InitBlock(v, id) == IF id = "none" THEN NoBlock ELSE create_block(v, <<id>>)

Init ==
    /\ version \in Versions
    /\ \E f \in [Cells -> InitKinds(version)] :
          /\ grid = [c \in Cells |-> IF c = 0 THEN NoBlock ELSE InitBlock(version, f[c])]
    /\ items = << >>
    /\ bees = 0
    /\ \E fill \in Fills(version), tool \in InitTools, wear \in InitWear, st \in InitStats :
          /\ tool /= "none" => version = "v11"
          /\ tool = "none" => wear = 0
          /\ st /= <<MAX_FOOD, MAX_HEALTH>> => fill = "none" /\ tool = "none"
          /\ hotbar = InitHotbar(version, FALSE, fill /= "none", tool, wear)
          /\ inventory = InitInventory(version, fill = "both")
          /\ food = st[1]
          /\ health = st[2]
    /\ selected = 1
    /\ playerPos = 0
    /\ targetPos = 0
    /\ targetInRange = FALSE
    /\ craftingWindow = "none"
    /\ last = NoLast
    /\ steps = 0
    /\ mobs = << >>
    /\ playerXY = <<0, 0>>
    /\ turn = 0
    /\ crafter = "none"
    /\ craftGrid = << >>
    /\ craftOut = NoStack
    /\ call = NoCall

(***************************************************************************)
(* Ninedraft.mine_block: the loop over the drops of the mined block.  st   *)
(* holds the world as changed so far, the locals x and y, the error raised *)
(* and how many drops were handled.  i is the loop index, from 0.  The     *)
(* result is the set of outcomes, one per draw of the jitter.              *)
(***************************************************************************)
\* random.randint(0, 2)
Jitter == 0 .. 2

DropX(x0, i, j) == x0 - BLOCK_SIZE \div 2 + 5 + (i % 3) * 11 + j
DropY(y0, i, j) == y0 - BLOCK_SIZE \div 2 + 5 + ((i \div 3) % 3) * 11 + j

\* World.add_block: the block goes to the cell of the pixel.
add_block(g, block, x) == [g EXCEPT ![CellOf(x)] = block]

\* remove_block that leaves the world as it is.
remove_block_kept(g, c) == g

\* World.remove_block: the cell of the block is empty afterwards.
remove_block(g, c) == [g EXCEPT ![c] = NoBlock]

\* World.get_block: whether the cell of the pixel holds a block.
Occupied(g, x) == g[CellOf(x)] /= NoBlock

DropCategories(v) == IF v = "v11" THEN {"item", "block", "bee"} ELSE {"item", "block"}

RECURSIVE ApplyDrops(_, _, _, _)
ApplyDrops(v, drops, i, st) ==
    IF i >= Len(drops) THEN {st}
    ELSE LET category == drops[i + 1][1]
             payload == drops[i + 1][2]
         IN  IF category \notin DropCategories(v)
             THEN {[st EXCEPT !.err = "KeyError"]}
             ELSE IF category = "item"
             THEN LET it == create_item(v, payload) IN
                  IF it.err /= "none" THEN {[st EXCEPT !.err = it.err]}
                  ELSE UNION { ApplyDrops(v, drops, i + 1,
                                 [st EXCEPT !.items = Append(@, it),
                                            !.x = DropX(st.x0, i, jx),
                                            !.y = DropY(st.y0, i, jy),
                                            !.done = @ + 1]) : jx \in Jitter, jy \in Jitter }
             ELSE IF category = "block"
             THEN LET b == create_block(v, payload) IN
                  IF b.err /= "none" THEN {[st EXCEPT !.err = b.err]}
                  ELSE ApplyDrops(v, drops, i + 1,
                         [st EXCEPT !.grid = add_block(@, b, st.x),
                                    !.stacked = @ \/ Occupied(st.grid, st.x),
                                    !.done = @ + 1])
             ELSE ApplyDrops(v, drops, i + 1,
                         [st EXCEPT !.bees = @ + BEES_PER_HIVE, !.done = @ + 1])

\* The attack handed to the active item: a depleted tool in the selected slot
\* takes the wear of the swings the hands make for it.
AttackWith_active(hb, sel, successful) ==
    IF get_selected_value(hb, sel).qty > 0
    THEN [hb EXCEPT ![sel].item = attack(@, successful)]
    ELSE hb

\* The hotbar after effective_item.attack(successful): the tool in the
\* selected slot is the object attacked with; the hands are not in the hotbar.
AttackWith(hb, sel, successful) ==
    IF HoldsEffective(hb, sel)
    THEN [hb EXCEPT ![sel].item = attack(@, successful)]
    ELSE hb

\* The food cost of a mined block: 0.5 in app.py, 0.2 in app_v1.0.py.
FoodCost(v) == IF v = "v11" THEN FOOD_COST ELSE FOOD_COST_V10

\* The cost read with "food >= 0": the food is charged even when none is left.
MiningCost_food_always(v, f, h) ==
    IF f >= 0 THEN <<change_food(f, -FoodCost(v)), h>>
    ELSE <<f, change_health(h, -HEALTH_COST)>>

\* <<food, health>> after a block was mined: the food pays while there is
\* some, the health otherwise.
MiningCost(v, f, h) ==
    IF f > 0 THEN <<change_food(f, -FoodCost(v)), h>>
    ELSE <<f, change_health(h, -HEALTH_COST)>>

\* get_drops is given the suitability flag in app.py, the attack flag in
\* app_v1.0.py.
DropFlag(v, suitable, successful) == IF v = "v11" THEN suitable ELSE successful

mine_block(c) ==
    \E luck \in Lucks :
      LET block == grid[c]
          effective == get_holding(hotbar, selected)[2]
          was_item_suitable == Suitable(block, effective)
          after == mine(block, effective, luck)
          was_attack_successful == is_mined(after)
      IN
      /\ hotbar' = AttackWith(hotbar, selected, was_attack_successful)
      /\ IF is_mined(after)
         THEN /\ food' = MiningCost(version, food, health)[1]
              /\ health' = MiningCost(version, food, health)[2]
              /\ \E drops \in get_drops(after, luck,
                                        DropFlag(version, was_item_suitable, was_attack_successful)) :
                 \E st \in ApplyDrops(version, drops, 0,
                             [items |-> items, grid |-> remove_block(grid, c),
                              bees |-> bees, x0 |-> CentreX(c), y0 |-> CentreY,
                              x |-> CentreX(c), y |-> CentreY, err |-> "none", done |-> 0,
                              stacked |-> FALSE]) :
                    /\ items' = st.items
                    /\ grid' = st.grid
                    /\ bees' = st.bees
                    /\ last' = [NoLast EXCEPT !.op = "mine", !.err = st.err,
                                  !.flag = IF was_attack_successful THEN "T" ELSE "F",
                                  !.mined = TRUE, !.food = food, !.health = health,
                                  !.cell = c, !.drops = drops, !.done = st.done,
                                  !.eff = effective, !.block = block, !.items = items,
                                  !.hb = hotbar, !.stacked = st.stacked,
                                  !.mineargs = <<luck>>, !.suitable = was_item_suitable,
                                  !.dropargs = <<luck, DropFlag(version, was_item_suitable,
                                                                was_attack_successful)>>]
         ELSE /\ grid' = [grid EXCEPT ![c] = after]
              /\ last' = [NoLast EXCEPT !.op = "mine",
                            !.flag = IF was_attack_successful THEN "T" ELSE "F",
                            !.food = food, !.health = health, !.cell = c,
                            !.eff = effective, !.block = block, !.items = items,
                            !.hb = hotbar]
              /\ UNCHANGED <<items, bees, food, health>>

(***************************************************************************)
(* Ninedraft.attack_mob, for the mobs World.get_mobs finds near the click: *)
(* a sheep drops wool 20 pixels above itself, a bee is removed.  Where the *)
(* mobs are is the physics engine's business: any may be near.             *)
(***************************************************************************)
attack_mobs(c) ==
    \E sheep \in BOOLEAN, k \in 0 .. bees :
        /\ items' = IF sheep THEN Append(items, create_item(version, <<"wool">>))
                    ELSE items
        /\ bees' = bees - k
        /\ last' = [NoLast EXCEPT !.op = "attack_mob", !.cell = c]
        /\ UNCHANGED <<grid, hotbar, food, health>>

(***************************************************************************)
(* Ninedraft._left_click                                                   *)
(***************************************************************************)
LeftClick ==
    /\ IF targetInRange /\ grid[targetPos] /= NoBlock
       THEN mine_block(targetPos)
       ELSE IF targetInRange /\ version = "v11"
       THEN attack_mobs(targetPos)
       ELSE /\ last' = [NoLast EXCEPT !.op = "left_click", !.cell = targetPos]
            /\ UNCHANGED <<grid, items, bees, hotbar, food, health>>
    /\ UNCHANGED <<version, selected, inventory, playerPos, targetPos, targetInRange,
                   craftingWindow>>

(***************************************************************************)
(* Ninedraft._mouse_move, _mouse_leave (app.py), _move and _jump (which in *)
(* app.py call check_target; the velocity they set is the physics          *)
(* engine's), and SelectableGrid.toggle_selection on a number key.         *)
(***************************************************************************)
MouseMove ==
    \E c \in Cells :
        /\ targetPos' = c
        /\ targetInRange' = check_target(hotbar, selected, playerPos, c)
        /\ last' = [NoLast EXCEPT !.op = "input"]
        /\ UNCHANGED <<version, grid, items, bees, hotbar, selected, inventory, food,
                       health, playerPos, craftingWindow>>

MouseLeave ==
    /\ version = "v11"
    /\ targetInRange' = FALSE
    /\ last' = [NoLast EXCEPT !.op = "input"]
    /\ UNCHANGED <<version, grid, items, bees, hotbar, selected, inventory, food,
                   health, playerPos, targetPos, craftingWindow>>

MoveKey ==
    /\ targetInRange' = IF version = "v11"
                        THEN check_target(hotbar, selected, playerPos, targetPos)
                        ELSE targetInRange
    /\ last' = [NoLast EXCEPT !.op = "input"]
    /\ UNCHANGED <<version, grid, items, bees, hotbar, selected, inventory, food,
                   health, playerPos, targetPos, craftingWindow>>

toggle_selection(sel, k) == IF sel = k THEN 0 ELSE k

ToggleSelection ==
    \E k \in HotbarSlots :
        /\ selected' = toggle_selection(selected, k)
        /\ last' = [NoLast EXCEPT !.op = "input"]
        /\ UNCHANGED <<version, grid, items, bees, hotbar, inventory, food, health,
                       playerPos, targetPos, targetInRange, craftingWindow>>

(***************************************************************************)
(* Ninedraft.step: the world's tick moves the player (physics); only       *)
(* app_v1.0.py checks the target again afterwards.                         *)
(***************************************************************************)
\* The cells the player can be in: the row of the model and the cell past its
\* end, which is out of reach of the first cell.
PlayerCells == 0 .. NumCells

Tick ==
    \E p \in PlayerCells :
        /\ playerPos' = p
        /\ targetInRange' = IF version = "v10"
                            THEN check_target(hotbar, selected, p, targetPos)
                            ELSE targetInRange
        /\ last' = [NoLast EXCEPT !.op = "input"]
        /\ UNCHANGED <<version, grid, items, bees, hotbar, selected, inventory, food,
                       health, targetPos, craftingWindow>>


(***************************************************************************)
(* Ninedraft.run_effect with _trigger_crafting and _close_crafter_view.    *)
(* An effect is <<kind, argument>>.  The result is the player's stats and  *)
(* the crafting window afterwards, and the error raised.                   *)
(***************************************************************************)
CraftTypes == {"basic", "crafting_table", "smelting"}

Effect(f, h, w, e) == [food |-> f, health |-> h, window |-> w, err |-> e]

trigger_crafting(v, craft_type, f, h, w) ==
    IF v = "v10" THEN Effect(f, h, w, "none")
    ELSE IF w /= "none" THEN Effect(f, h, "none", "none")
    ELSE IF craft_type \notin CraftTypes THEN Effect(f, h, w, "UnboundLocalError")
    ELSE Effect(f, h, IF craft_type = "smelting" THEN "furnace" ELSE "craft", "none")

\* The stat a food or health effect changes.
EffectStat(v, stat, f) ==
    IF v = "v11" THEN (IF f = MAX_FOOD THEN "health" ELSE stat)
    ELSE (IF f = MAX_FOOD THEN stat ELSE "health")

run_effect(v, effect, f, h, w) ==
    IF Len(effect) = 2 /\ effect[1] = "crafting"
    THEN trigger_crafting(v, effect[2], f, h, w)
    ELSE IF Len(effect) = 2 /\ effect[1] \in {"food", "health"}
    THEN IF EffectStat(v, effect[1], f) = "food"
         THEN Effect(change_food(f, effect[2]), h, w, "none")
         ELSE Effect(f, change_health(h, effect[2]), w, "none")
    ELSE Effect(f, h, w, "KeyError")

\* use() of the thing under the target: the crafting table and the furnace
\* (app.py) open their crafting context; no other block has an effect.
use(block) ==
    CASE block.cls = "CraftingTableBlock" -> <<"crafting", "crafting_table">>
      [] block.cls = "FurnaceBlock" -> <<"crafting", "smelting">>
      [] OTHER -> << >>

(***************************************************************************)
(* Ninedraft._right_click.  ev is the cell of the click event, which is    *)
(* the target position when the click is on the game view, and any cell    *)
(* when it is on another widget of the window (the handler is bound to the *)
(* window, the target follows the mouse on the view only).                 *)
(***************************************************************************)
\* The subtraction without the removal: an emptied stack stays in its slot.
Consume_keep_empty(v, hb, sel) ==
    IF v = "v10" THEN hb ELSE [hb EXCEPT ![sel].qty = @ - 1]

\* The hotbar after "stack.subtract(1)" and the removal of an emptied stack
\* (app.py); app_v1.0.py takes nothing from the stack.
Consume(v, hb, sel) ==
    IF v = "v10" THEN hb
    ELSE IF hb[sel].qty = 1 THEN [hb EXCEPT ![sel] = NoStack]
    ELSE [hb EXCEPT ![sel].qty = @ - 1]

\* The placement without the look at the cell: the block is added to the
\* cell whether or not it holds one.
PlaceDrop_unchecked(v, drop, ev, g, f, h, w) ==
    IF drop[1] = "block"
    THEN LET b == create_block(v, <<drop[2][1]>>) IN
         IF b.err /= "none"
         THEN [grid |-> g, eff |-> Effect(f, h, w, b.err), stacked |-> FALSE]
         ELSE [grid |-> add_block(g, b, CentreX(ev)), eff |-> Effect(f, h, w, "none"),
               stacked |-> Occupied(g, CentreX(ev))]
    ELSE IF drop[1] = "effect"
    THEN [grid |-> g, eff |-> run_effect(v, drop[2], f, h, w), stacked |-> FALSE]
    ELSE [grid |-> g, eff |-> Effect(f, h, w, "KeyError"), stacked |-> FALSE]

\* Applying the one drop of place(): the grid, the stats and the error.
PlaceDrop(v, drop, ev, g, f, h, w) ==
    IF drop[1] = "block"
    THEN IF ~Occupied(g, CentreX(ev))
         THEN LET b == create_block(v, <<drop[2][1]>>) IN
              IF b.err /= "none"
              THEN [grid |-> g, eff |-> Effect(f, h, w, b.err), stacked |-> FALSE]
              ELSE [grid |-> add_block(g, b, CentreX(ev)), eff |-> Effect(f, h, w, "none"),
                    stacked |-> Occupied(g, CentreX(ev))]
         ELSE [grid |-> g, eff |-> Effect(f, h, w, "NotImplementedError"), stacked |-> FALSE]
    ELSE IF drop[1] = "effect"
    THEN [grid |-> g, eff |-> run_effect(v, drop[2], f, h, w), stacked |-> FALSE]
    ELSE [grid |-> g, eff |-> Effect(f, h, w, "KeyError"), stacked |-> FALSE]

UseTarget ==
    LET effect == use(grid[targetPos])
        eff == IF effect = << >> THEN Effect(food, health, craftingWindow, "none")
               ELSE run_effect(version, effect, food, health, craftingWindow)
    IN  /\ food' = eff.food
        /\ health' = eff.health
        /\ craftingWindow' = eff.window
        /\ last' = [NoLast EXCEPT !.op = "use", !.err = eff.err, !.cell = targetPos]
        /\ UNCHANGED <<grid, hotbar>>

PlaceActive(ev) ==
    IF selected = 0 /\ version = "v11"
    THEN /\ last' = [NoLast EXCEPT !.op = "place", !.ret = "nothing", !.cell = ev]
         /\ UNCHANGED <<grid, hotbar, food, health, craftingWindow>>
    ELSE IF get_selected_value(hotbar, selected).qty = 0
    THEN /\ last' = [NoLast EXCEPT !.op = "place", !.err = "AttributeError", !.cell = ev,
                        !.block = grid[ev]]
         /\ UNCHANGED <<grid, hotbar, food, health, craftingWindow>>
    ELSE LET drops == place(hotbar[selected].item)
             hb == Consume(version, hotbar, selected)
         IN  IF drops = << >>
             THEN /\ hotbar' = hb
                  /\ last' = [NoLast EXCEPT !.op = "place", !.ret = "nothing", !.cell = ev,
                                !.block = grid[ev], !.stack = hotbar[selected]]
                  /\ UNCHANGED <<grid, food, health, craftingWindow>>
             ELSE IF Len(drops) > 1
             THEN /\ hotbar' = hb
                  /\ last' = [NoLast EXCEPT !.op = "place", !.err = "NotImplementedError",
                                !.cell = ev, !.block = grid[ev], !.stack = hotbar[selected]]
                  /\ UNCHANGED <<grid, food, health, craftingWindow>>
             ELSE LET r == PlaceDrop(version, drops[1], ev, grid, food, health,
                                     craftingWindow)
                  IN  /\ hotbar' = hb
                      /\ grid' = r.grid
                      /\ food' = r.eff.food
                      /\ health' = r.eff.health
                      /\ craftingWindow' = r.eff.window
                      /\ last' = [NoLast EXCEPT !.op = "place", !.err = r.eff.err,
                                    !.ret = drops[1][1], !.cell = ev,
                                    !.food = food, !.health = health,
                                    !.block = grid[ev], !.stack = hotbar[selected],
                                    !.stacked = r.stacked]

RightClick ==
    \E ev \in Cells :
        /\ IF grid[targetPos] /= NoBlock THEN UseTarget ELSE PlaceActive(ev)
        /\ UNCHANGED <<version, items, bees, selected, inventory, playerPos, targetPos,
                       targetInRange>>

(***************************************************************************)
(* Ninedraft._handle_player_collide_item: the collision callback, for the  *)
(* k-th dropped item of the world.                                         *)
(***************************************************************************)
RemoveAt(seq, k) == SubSeq(seq, 1, k - 1) \o SubSeq(seq, k + 1, Len(seq))

\* The callback with its two offers swapped: the inventory is asked first.
Taker_inventory_first(v, hb, inv, item) ==
    IF CanAdd(inv, item) THEN "inventory"
    ELSE IF v = "v11" /\ CanAdd(hb, item) THEN "hotbar"
    ELSE "none"

\* The callback without its early return: an item nobody took still counts
\* as taken by the hotbar and leaves the world.
Taker_no_refusal(v, hb, inv, item) ==
    IF CanAdd(inv, item) /\ (v = "v10" \/ ~CanAdd(hb, item)) THEN "inventory"
    ELSE IF v = "v11" THEN "hotbar"
    ELSE "none"

\* Where the item goes: app.py offers it to the hotbar, then the inventory;
\* app_v1.0.py to the inventory only.
Taker(v, hb, inv, item) ==
    IF v = "v11" /\ CanAdd(hb, item) THEN "hotbar"
    ELSE IF CanAdd(inv, item) THEN "inventory"
    ELSE "none"

\* The value the callback returns.
CollideReturn(v, taker) == IF v = "v11" /\ taker = "none" THEN "True" ELSE "False"

Collide ==
    \E k \in 1 .. Len(items) :
        LET item == items[k]
            taker == Taker(version, hotbar, inventory, item)
        IN  /\ hotbar' = IF taker = "hotbar" THEN add_item(hotbar, item) ELSE hotbar
            /\ inventory' = IF taker = "inventory" THEN add_item(inventory, item)
                            ELSE inventory
            /\ items' = IF taker = "none" THEN items ELSE RemoveAt(items, k)
            /\ last' = [NoLast EXCEPT !.op = "collide", !.took = taker, !.cell = k,
                          !.ret = CollideReturn(version, taker), !.item = item,
                          !.hb = hotbar, !.inv = inventory, !.items = items]
            /\ UNCHANGED <<version, grid, bees, selected, food, health, playerPos,
                           targetPos, targetInRange, craftingWindow>>

\* One more command, while the model's budget of commands lasts.
\* The mobs and the crafter are followed in specifications of their own.
Count ==
    /\ steps < MaxSteps
    /\ steps' = steps + 1
    /\ UNCHANGED <<mobs, playerXY, turn, crafter, craftGrid, craftOut, call>>

\* The commands of the input layer and the collision callback, between two
\* moves of the player.
Next ==
    \/ Count /\ LeftClick
    \/ Count /\ RightClick
    \/ Count /\ MouseMove
    \/ Count /\ MouseLeave
    \/ Count /\ ToggleSelection
    \/ Count /\ Collide

Spec == Init /\ [][Next]_vars

\* The same with the ticks and the movement keys, which move the player.
NextTick ==
    \/ Next
    \/ Count /\ MoveKey
    \/ Count /\ Tick

SpecTick == Init /\ [][NextTick]_vars

(***************************************************************************)
(* The bees.  World.step moves the bodies (the physics engine's business:  *)
(* any position of the model's lattice) and then steps every mob once, in  *)
(* the order of its list; Ninedraft.step then looks at the player's        *)
(* health.  The lattice has bees and players at 32 pixels from each other, *)
(* nearer, and farther along one axis or along the diagonal only.  One     *)
(* more point lies out of the honey search of a bee from every cell: the   *)
(* first bee may start there, and stays.                                   *)
(***************************************************************************)
\* The x of a point out of the honey search of a bee from every cell.
FarAway == CentreX(NumCells - 1) + HONEY_RANGE + 1

BeePoints == {<<0, 0>>, <<16, 0>>}
FarPoint == <<FarAway, 0>>
PlayerPoints == {<<x, y>> : x \in {0, 16, 32, 48}, y \in {0, 24}}

\* A bee arrives with the world or out of a hive mined later: its counter is
\* anywhere in its period when the specification starts.
BeeStarts == {0, BEE_PERIOD - 1}

Bee(pos, n) == [id |-> "bee", pos |-> pos, steps |-> n]

\* The square of the distance of two points.
Dist2(p, q) == (p[1] - q[1]) * (p[1] - q[1]) + (p[2] - q[2]) * (p[2] - q[2])

\* attack_player with "<" for "<=": a player at exactly a block is missed.
attack_player_strict(pos, ppos, h) ==
    IF Dist2(pos, ppos) < BLOCK_SIZE * BLOCK_SIZE THEN change_health(h, -BEE_DAMAGE) ELSE h

\* Bee.attack_player: the health after it (sqrt(d2) <= BLOCK_SIZE).
attack_player(pos, ppos, h) ==
    IF Dist2(pos, ppos) <= BLOCK_SIZE * BLOCK_SIZE THEN change_health(h, -BEE_DAMAGE) ELSE h

\* CustomWorld.get_blocks_nearby: the cells whose block lies within the
\* distance of the point (the distance is taken to the block's position).
get_blocks_nearby(g, pos, max_distance) ==
    { c \in Cells : /\ g[c] /= NoBlock
                    /\ Dist2(<<CentreX(c), CentreY>>, pos) <= max_distance * max_distance }

\* Bee.get_honey_block: the position of the first honey block of the list
\* get_blocks_nearby returns.  The list comes from the physics space's point
\* query in no order the code fixes, so any honey block in range may be the
\* first; the empty set stands for None.
get_honey_block(pos, g) ==
    { <<CentreX(c), CentreY>> :
        c \in { n \in get_blocks_nearby(g, pos, HONEY_RANGE) : g[n].id = "honey" } }

\* Bee.step then Mob.step: the bee steers and attacks when its counter is a
\* multiple of 15; the counter then grows by one.  The velocity it sets is
\* the physics engine's; the record of the step keeps the target it took.
BeeSteers(mob) == mob.steps % BEE_PERIOD = 0

\* The targets the steering may take: the honey block found, else the player.
SteerTargets(mob, g, ppos) ==
    IF get_honey_block(mob.pos, g) /= {} THEN get_honey_block(mob.pos, g) ELSE {ppos}

\* The target of this step, << >> when the bee does not steer.
Bee_target(mob, g, ppos) ==
    IF BeeSteers(mob) THEN SteerTargets(mob, g, ppos) ELSE {<< >>}

Bee_step(mob) == [mob EXCEPT !.steps = @ + 1]

\* The honey the player has placed: none, or the row from some cell on.
HoneyRows == {{}} \cup { c .. NumCells - 1 : c \in Cells }

InitBee ==
    /\ version = "v11"
    /\ \E honey \in HoneyRows :
          grid = [c \in Cells |-> IF c \in honey THEN create_block("v11", <<"honey">>)
                                  ELSE NoBlock]
    /\ items = << >>
    /\ bees = 0
    /\ hotbar = InitHotbar("v11", FALSE, FALSE, "none", 0)
    /\ inventory = InitInventory("v11", FALSE)
    /\ selected = 1
    /\ food = MAX_FOOD
    /\ health \in {MAX_HEALTH, BEE_DAMAGE}
    /\ playerPos = 0
    /\ targetPos = 0
    /\ targetInRange = FALSE
    /\ craftingWindow = "none"
    /\ last = NoLast
    /\ steps = 0
    /\ mobs \in [1 .. NumBees -> {Bee(p, n) : p \in BeePoints \cup {FarPoint}, n \in BeeStarts}]
    /\ \A b \in 2 .. NumBees : mobs[b].pos /= FarPoint
    /\ playerXY \in PlayerPoints
    /\ turn = 0
    /\ crafter = "none"
    /\ craftGrid = << >>
    /\ craftOut = NoStack
    /\ call = NoCall

\* What no step of a tick touches.
TickFrame ==
    UNCHANGED <<version, grid, items, bees, hotbar, selected, inventory,
                playerPos, targetPos, targetInRange, craftingWindow, steps,
                crafter, craftGrid, craftOut, call>>

\* World.step, first half: the physics space moves the player and the mobs.
PhysicsStep ==
    /\ turn = 0
    /\ \A b \in DOMAIN mobs : mobs[b].steps < MaxBeeSteps
    /\ \E f \in [DOMAIN mobs -> BeePoints] :
          mobs' = [b \in DOMAIN mobs |->
                     IF mobs[b].pos = FarPoint THEN mobs[b] ELSE [mobs[b] EXCEPT !.pos = f[b]]]
    /\ playerXY' \in PlayerPoints
    /\ turn' = 1
    /\ last' = [NoLast EXCEPT !.op = "physics"]
    /\ UNCHANGED <<food, health>>
    /\ TickFrame

\* World.step, second half: the step of the next mob of the list.
BeeStep ==
    /\ turn \in DOMAIN mobs
    /\ LET mob == mobs[turn] IN
       /\ health' = IF BeeSteers(mob) THEN attack_player(mob.pos, playerXY, health)
                    ELSE health
       /\ mobs' = [mobs EXCEPT ![turn] = Bee_step(mob)]
       /\ \E target \in Bee_target(mob, grid, playerXY) :
             last' = [NoLast EXCEPT !.op = "bee_step", !.cell = turn, !.health = health,
                        !.bsteps = mob.steps, !.bpos = mob.pos, !.ppos = playerXY,
                        !.aim = target]
    /\ turn' = turn + 1
    /\ UNCHANGED <<food, playerXY>>
    /\ TickFrame

\* Ninedraft.step after World.step: a dead player is asked; "yes" sets the
\* game up again, "no" quits (turn -1: no tick follows).
EndTick ==
    /\ turn = Len(mobs) + 1
    /\ \/ /\ health > 0
          /\ turn' = 0
          /\ UNCHANGED <<food, health, mobs, playerXY>>
       \/ /\ health <= 0
          /\ turn' = 0
          /\ food' = MAX_FOOD
          /\ health' = MAX_HEALTH
          /\ mobs' = [b \in DOMAIN mobs |-> Bee(<<0, 0>>, 0)]
          /\ playerXY' = <<0, 0>>
       \/ /\ health <= 0
          /\ turn' = -1
          /\ UNCHANGED <<food, health, mobs, playerXY>>
    /\ last' = [NoLast EXCEPT !.op = "end_tick"]
    /\ TickFrame

NextBee == PhysicsStep \/ BeeStep \/ EndTick

SpecBee == InitBee /\ [][NextBee]_vars

(***************************************************************************)
(* Crafting.  The three recipe tables of app.py, entry by entry in the     *)
(* order of the file: a pattern of rows of item ids ("None" for an empty   *)
(* cell) and the stack it yields.                                          *)
(***************************************************************************)
\* An entry whose output was left as copied from the first entry.
Recipe_copied_output(pattern, ids, qty) ==
    [pattern |-> pattern, out |-> Stack(create_item("v11", <<"stick">>), qty)]

Recipe(pattern, ids, qty) ==
    [pattern |-> pattern, out |-> Stack(create_item("v11", ids), qty)]

\* The 2x2 table with the pattern of its first entry changed.
CRAFTING_RECIPES_2x2_other_stick ==
    << Recipe(<< <<"plank", "plank">>, <<"None", "plank">> >>, <<"stick">>, 4),
       Recipe(<< <<"None", "None">>, <<"None", "wood">> >>, <<"plank">>, 4) >>

CRAFTING_RECIPES_2x2 ==
    << Recipe(<< <<"None", "plank">>, <<"None", "plank">> >>, <<"stick">>, 4),
       Recipe(<< <<"None", "None">>, <<"None", "wood">> >>, <<"plank">>, 4),
       Recipe(<< <<"plank", "plank">>, <<"plank", "plank">> >>, <<"crafting_table">>, 1),
       Recipe(<< <<"honey", "honey">>, <<"honey", "honey">> >>, <<"hive">>, 1),
       Recipe(<< <<"None", "None">>, <<"None", "apple">> >>, <<"apple_seed">>, 4) >>

\* The three rows of a tool's pattern: head, then the handle twice.
Pickaxe(m) == << <<m, m, m>>, <<"None", "stick", "None">>, <<"None", "stick", "None">> >>
Axe(m) == << <<m, m, "None">>, <<m, "stick", "None">>, <<"None", "stick", "None">> >>
Shovel(m) == << <<"None", m, "None">>, <<"None", "stick", "None">>, <<"None", "stick", "None">> >>
Sword(m) == << <<"None", m, "None">>, <<"None", m, "None">>, <<"None", "stick", "None">> >>
Ring(m, c) == << <<m, m, m>>, <<m, c, m>>, <<m, m, m>> >>

CRAFTING_RECIPES_3x3 ==
    << Recipe(<< <<"None", "None", "None">>, <<"None", "plank", "None">>,
                 <<"None", "plank", "None">> >>, <<"stick">>, 4),
       Recipe(Pickaxe("plank"), <<"pickaxe", "wood">>, 1),
       Recipe(Axe("plank"), <<"axe", "wood">>, 1),
       Recipe(Shovel("plank"), <<"shovel", "wood">>, 1),
       Recipe(Sword("plank"), <<"sword", "wood">>, 1),
       Recipe(Sword("plank"), <<"sword", "wood">>, 1),
       Recipe(Pickaxe("stone"), <<"pickaxe", "stone">>, 1),
       Recipe(Axe("stone"), <<"axe", "stone">>, 1),
       Recipe(Shovel("stone"), <<"shovel", "stone">>, 1),
       Recipe(Sword("stone"), <<"sword", "stone">>, 1),
       Recipe(Ring("stone", "None"), <<"furnace">>, 1),
       Recipe(Pickaxe("iron_ingot"), <<"pickaxe", "iron">>, 1),
       Recipe(Axe("iron_ingot"), <<"axe", "iron">>, 1),
       Recipe(Shovel("iron_ingot"), <<"shovel", "iron">>, 1),
       Recipe(Sword("iron_ingot"), <<"sword", "iron">>, 1),
       Recipe(Ring("stone", "None"), <<"furnace">>, 1),
       Recipe(<< <<"wool", "None", "wool">>, <<"wool", "wool", "wool">>,
                 <<"wool", "wool", "wool">> >>, <<"sweater">>, 1),
       Recipe(Ring("gold_ingot", "apple"), <<"golden_apple">>, 1) >>

FURNACE_RECIPES ==
    << Recipe(<< <<"wood">>, <<"plank">> >>, <<"charcoal">>, 4),
       Recipe(<< <<"iron_ore">>, <<"plank">> >>, <<"iron_ingot">>, 1),
       Recipe(<< <<"gold_ore">>, <<"plank">> >>, <<"gold_ingot">>, 1),
       Recipe(<< <<"apple">>, <<"plank">> >>, <<"cooked_apple">>, 1),
       Recipe(<< <<"cooked_apple">>, <<"plank">> >>, <<"burnt_apple">>, 1),
       Recipe(<< <<"golden_apple">>, <<"charcoal">> >>, <<"infinity_apple">>, 1) >>

\* Ninedraft._trigger_crafting: the table and the size of the crafter of a
\* context.
RecipesOf(craft_type) ==
    CASE craft_type = "basic" -> CRAFTING_RECIPES_2x2
      [] craft_type = "crafting_table" -> CRAFTING_RECIPES_3x3
      [] craft_type = "smelting" -> FURNACE_RECIPES
      [] OTHER -> << >>

CrafterRows(craft_type) ==
    CASE craft_type = "basic" -> 2
      [] craft_type = "crafting_table" -> 3
      [] craft_type = "smelting" -> 2
      [] OTHER -> 0

\* The furnace's crafter taken to be as wide as it is high.
CrafterColumns_square(craft_type) == CrafterRows(craft_type)

CrafterColumns(craft_type) ==
    CASE craft_type = "basic" -> 2
      [] craft_type = "crafting_table" -> 3
      [] craft_type = "smelting" -> 1
      [] OTHER -> 0

\* The 2x2 table is a list, scanned in its order; the other two are sets,
\* scanned in an order the interpreter chooses.
IsOrdered(craft_type) == craft_type = "basic"

EmptyInput(craft_type) ==
    [i \in 1 .. CrafterRows(craft_type) |-> [j \in 1 .. CrafterColumns(craft_type) |-> "None"]]

\* The ids the player puts into the input grid.
CraftIds == {"plank", "stick", "wood"}

Placed(g) ==
    Cardinality({ij \in (DOMAIN g) \X (1 .. 3) : ij[2] \in DOMAIN g[ij[1]] /\ g[ij[1]][ij[2]] /= "None"})

\* GridCrafter.craft (crafting.py): the entries whose pattern equals the
\* input grid cell for cell, and the stacks a scan of the table may return:
\* the first such entry's of a list, any such entry's of a set, none when
\* there is no such entry.
\* The match that looks at the first row of the grid only.
Matching_first_row(table, g) == { i \in DOMAIN table : table[i].pattern[1] = g[1] }

Matching(table, g) == { i \in DOMAIN table : table[i].pattern = g }

Crafted(craft_type, g) ==
    LET table == RecipesOf(craft_type)
        found == Matching(table, g)
    IN  IF found = {} THEN { NoStack }
        ELSE IF IsOrdered(craft_type) THEN { table[LeastOf(found)].out }
        ELSE { table[i].out : i \in found }

InitCraft ==
    /\ version = "v11"
    /\ grid = [c \in Cells |-> IF c = 1 THEN create_block("v11", <<"crafting_table">>)
                               ELSE NoBlock]
    /\ items = << >>
    /\ bees = 0
    /\ hotbar = InitHotbar("v11", FALSE, FALSE, "none", 0)
    /\ inventory = InitInventory("v11", FALSE)
    /\ selected = 1
    /\ food = MAX_FOOD
    /\ health = MAX_HEALTH
    /\ playerPos = 0
    /\ targetPos = 0
    /\ targetInRange = FALSE
    /\ craftingWindow = "none"
    /\ last = NoLast
    /\ steps = 0
    /\ mobs = << >>
    /\ playerXY = <<0, 0>>
    /\ turn = 0
    /\ crafter = "none"
    /\ craftGrid = << >>
    /\ craftOut = NoStack
    /\ call = NoCall

\* What no step of the crafting window touches.
CraftFrame ==
    UNCHANGED <<version, grid, items, bees, hotbar, selected, inventory, playerPos,
                targetPos, targetInRange, steps, mobs, playerXY, turn, call>>

\* run_effect(("crafting", craft_type)), from the "e" key, a crafting table
\* or a furnace: the window opens with an empty crafter of the context, or
\* the open window closes.
TriggerCrafting ==
    \E craft_type \in CraftTypes :
        LET eff == run_effect(version, <<"crafting", craft_type>>, food, health, craftingWindow) IN
        /\ craftingWindow' = eff.window
        /\ crafter' = IF eff.window = "none" THEN "none" ELSE craft_type
        /\ craftGrid' = IF eff.window = "none" THEN << >> ELSE EmptyInput(craft_type)
        /\ craftOut' = NoStack
        /\ last' = [NoLast EXCEPT !.op = "crafting", !.err = eff.err]
        /\ UNCHANGED <<food, health>>
        /\ CraftFrame

\* CraftingWindow (crafting.py): the player moves an item into a cell of the
\* input grid, or takes it back.
PutInput ==
    /\ crafter /= "none"
    /\ Placed(craftGrid) < MaxPlaced
    /\ \E i \in DOMAIN craftGrid : \E j \in DOMAIN craftGrid[i] : \E id \in CraftIds :
          /\ craftGrid[i][j] = "None"
          /\ craftGrid' = [craftGrid EXCEPT ![i][j] = id]
    /\ last' = [NoLast EXCEPT !.op = "input"]
    /\ UNCHANGED <<food, health, craftingWindow, crafter, craftOut>>
    /\ CraftFrame

TakeInput ==
    /\ crafter /= "none"
    /\ \E i \in DOMAIN craftGrid : \E j \in DOMAIN craftGrid[i] :
          /\ craftGrid[i][j] /= "None"
          /\ craftGrid' = [craftGrid EXCEPT ![i][j] = "None"]
    /\ last' = [NoLast EXCEPT !.op = "input"]
    /\ UNCHANGED <<food, health, craftingWindow, crafter, craftOut>>
    /\ CraftFrame

\* The craft button: GridCrafter.craft on the input grid.
Craft ==
    /\ crafter /= "none"
    /\ craftOut' \in Crafted(crafter, craftGrid)
    /\ last' = [NoLast EXCEPT !.op = "craft"]
    /\ UNCHANGED <<food, health, craftingWindow, crafter, craftGrid>>
    /\ CraftFrame

NextCraft == TriggerCrafting \/ PutInput \/ TakeInput \/ Craft

SpecCraft == InitCraft /\ [][NextCraft]_vars

(***************************************************************************)
(* The match on laid-out recipes.  The player lays out the pattern of an   *)
(* entry of the open crafter's table, as it is or with one cell changed:   *)
(* an item put into a cell the pattern leaves empty, or the item of a cell *)
(* replaced by another one.  The craft button is then pressed.             *)
(***************************************************************************)
\* The cells of a grid of rows, and the ids a table's patterns name.
GridCells(g) == { ij \in (DOMAIN g) \X (1 .. 3) : ij[2] \in DOMAIN g[ij[1]] }

PatternIds(table) ==
    { table[i].pattern[ij[1]][ij[2]] : <<i, ij>> \in
          { <<i, ij>> \in (DOMAIN table) \X ((1 .. 3) \X (1 .. 3)) :
                ij \in GridCells(table[i].pattern) } } \ {"None"}

\* The items at hand for the changed cell: what the table names, and dirt.
ChangeIds(table) == PatternIds(table) \cup {"dirt"}

\* g is p with exactly one cell changed, to an item.
SingleChange(p, g) ==
    /\ DOMAIN g = DOMAIN p
    /\ \A i \in DOMAIN p : DOMAIN g[i] = DOMAIN p[i]
    /\ \E ij \in GridCells(p) :
          /\ g[ij[1]][ij[2]] /= p[ij[1]][ij[2]]
          /\ g[ij[1]][ij[2]] /= "None"
          /\ \A kl \in GridCells(p) : kl /= ij => g[kl[1]][kl[2]] = p[kl[1]][kl[2]]

LaidOut(table) ==
    { table[i].pattern : i \in DOMAIN table }
    \cup { [table[i].pattern EXCEPT ![ij[1]][ij[2]] = id] : <<i, ij, id>> \in
             { <<i, ij, id>> \in (DOMAIN table) \X ((1 .. 3) \X (1 .. 3)) \X ChangeIds(table) :
                   ij \in GridCells(table[i].pattern) } }

InitMatch ==
    /\ version = "v11"
    /\ grid = [c \in Cells |-> IF c = 1 THEN create_block("v11", <<"crafting_table">>)
                               ELSE NoBlock]
    /\ items = << >>
    /\ bees = 0
    /\ hotbar = InitHotbar("v11", FALSE, FALSE, "none", 0)
    /\ inventory = InitInventory("v11", FALSE)
    /\ selected = 1
    /\ food = MAX_FOOD
    /\ health = MAX_HEALTH
    /\ playerPos = 0
    /\ targetPos = 0
    /\ targetInRange = FALSE
    /\ last = NoLast
    /\ steps = 0
    /\ mobs = << >>
    /\ playerXY = <<0, 0>>
    /\ turn = 0
    /\ crafter \in CraftTypes
    /\ craftingWindow = IF crafter = "smelting" THEN "furnace" ELSE "craft"
    /\ craftGrid \in LaidOut(RecipesOf(crafter))
    /\ craftOut = NoStack
    /\ call = NoCall

NextMatch == Craft

SpecMatch == InitMatch /\ [][NextMatch]_vars

(***************************************************************************)
(* Functions of the program called on their own, on inputs drawn from      *)
(* bounded sets: the world stands still, call holds the inputs and then    *)
(* the result.                                                             *)
(***************************************************************************)
\* The world while a function is called on its own.
StillWorld ==
    /\ version \in Versions
    /\ grid = [c \in Cells |-> NoBlock]
    /\ items = << >>
    /\ bees = 0
    /\ hotbar = InitHotbar(version, FALSE, FALSE, "none", 0)
    /\ inventory = InitInventory(version, FALSE)
    /\ selected = 1
    /\ food = MAX_FOOD
    /\ health = MAX_HEALTH
    /\ playerPos = 0
    /\ targetPos = 0
    /\ targetInRange = FALSE
    /\ craftingWindow = "none"
    /\ last = NoLast
    /\ steps = 0
    /\ mobs = << >>
    /\ playerXY = <<0, 0>>
    /\ turn = 0
    /\ crafter = "none"
    /\ craftGrid = << >>
    /\ craftOut = NoStack

CallFrame ==
    UNCHANGED <<version, grid, items, bees, hotbar, selected, inventory, food, health,
                playerPos, targetPos, targetInRange, craftingWindow, last, steps,
                mobs, playerXY, turn, crafter, craftGrid, craftOut>>

Called(fn, args) == [fn |-> fn, args |-> args, out |-> << >>, done |-> FALSE]

\* mine_block's loop on a list of n drops of a block in cell c: the item
\* drops at the indices a and b of the list.
ScatterCalls ==
    { Called("scatter", [cell |-> c, n |-> n, a |-> a, b |-> b]) :
          <<c, n, a, b>> \in { q \in Cells \X (1 .. MaxDrops) \X (0 .. MaxDrops) \X (0 .. MaxDrops) :
                                   q[3] <= q[4] /\ q[4] < q[2] } }

\* Where mine_block puts the item of index i, for one draw of the jitter.
DropPosition(c, i, jx, jy) == <<DropX(CentreX(c), i, jx), DropY(CentreY, i, jy)>>

ScatterDrops ==
    /\ call.fn = "scatter" /\ ~call.done
    /\ \E ja \in Jitter \X Jitter, jb \in Jitter \X Jitter :
          LET pa == DropPosition(call.args.cell, call.args.a, ja[1], ja[2])
              pb == DropPosition(call.args.cell, call.args.b, jb[1], jb[2])
          IN  call' = [call EXCEPT !.out = IF call.args.a = call.args.b THEN <<pa, pa>>
                                            ELSE <<pa, pb>>,
                                   !.done = TRUE]
    /\ CallFrame

\* Mining a fresh block of a kind of app.py's break tables with a tool of the
\* table's type, and with the bare hand, under one luck draw (app.py).
MineCalls ==
    { Called("mine", [block |-> b, material |-> m, luck |-> l]) :
          <<b, m, l>> \in { q \in (DOMAIN ADDITIONAL_BREAK_TABLES) \X TOOL_MATERIALS \X Lucks :
                               BreakTable(q[1]).type \in MATERIAL_TOOL_TYPES } }

\* How many calls of mine_block's block.mine it takes until is_mined().
RECURSIVE AttemptsToMine(_, _, _, _)
AttemptsToMine(block, item, luck, n) ==
    IF is_mined(block) THEN n
    ELSE AttemptsToMine(mine(block, item, luck), item, luck, n + 1)

MineOut ==
    /\ call.fn = "mine" /\ ~call.done
    /\ version = "v11"
    /\ LET block == create_block(version, <<call.args.block>>)
           tool == create_item(version, <<BreakTable(call.args.block).type, call.args.material>>)
       IN  call' = [call EXCEPT
                      !.out = [tool |-> AttemptsToMine(block, tool, call.args.luck, 0),
                               hand |-> AttemptsToMine(block, Hands, call.args.luck, 0),
                               suitable |-> Suitable(block, tool)],
                      !.done = TRUE]
    /\ CallFrame

\* Identifier tuples handed to the factories: every length from 0 to MaxIds
\* over identifiers the factories know and one they do not.
FactoryIds ==
    {"hands", "dirt", "apple", "stick", "pickaxe", "stone", "mayhem", "leaf",
     "crafting_table", "bogus"}

RECURSIVE TuplesOf(_, _)
TuplesOf(S, n) ==
    IF n = 0 THEN {<< >>}
    ELSE TuplesOf(S, n - 1) \cup { Append(t, x) : t \in { u \in TuplesOf(S, n - 1) : Len(u) = n - 1 }, x \in S }

FactoryCalls ==
    { Called(f, t) : f \in {"create_item", "create_block"}, t \in TuplesOf(FactoryIds, MaxIds) }

CreateOut ==
    /\ call.fn \in {"create_item", "create_block"} /\ ~call.done
    /\ LET made == IF call.fn = "create_item" THEN create_item(version, call.args)
                   ELSE create_block(version, call.args)
       IN  call' = [call EXCEPT !.out = [cls |-> made.cls, err |-> made.err], !.done = TRUE]
    /\ CallFrame

\* Where in the cell the click lands, from its centre, and the ends and the
\* middle of "random.randint(-40, 40)".
ClickOffsets == {-(BLOCK_SIZE \div 2), 0, BLOCK_SIZE \div 2 - 1}
BeeOffsets == {-BEE_SPREAD, 0, BEE_SPREAD}

\* A bee put further out along x than the draw says.
BeePosition_doubled(x, y, dx, dy) == <<x + 2 * dx, y + dy>>

\* mine_block: where a bee of a "bee" drop is added.
BeePosition(x, y, dx, dy) == <<x + dx, y + dy>>

\* A hive mined at a click in its cell; i is the bee looked at, dx and dy its
\* two random draws.
HiveCalls ==
    { Called("mine_hive", [cell |-> c, click |-> cx, i |-> i, dx |-> dx, dy |-> dy]) :
          c \in Cells, cx \in ClickOffsets, i \in 0 .. BEES_PER_HIVE - 1,
          dx \in BeeOffsets, dy \in BeeOffsets }

HiveOut ==
    /\ call.fn = "mine_hive" /\ ~call.done
    /\ version = "v11"
    /\ LET block == create_block(version, <<"hive">>)
           c == call.args.cell
       IN  \E luck \in Lucks, flag \in BOOLEAN :
           \E drops \in get_drops(block, luck, flag) :
           \E st \in ApplyDrops(version, drops, 0,
                       [items |-> << >>, grid |-> [grid EXCEPT ![c] = NoBlock],
                        bees |-> 0, x0 |-> CentreX(c), y0 |-> CentreY,
                        x |-> CentreX(c) + call.args.click, y |-> CentreY,
                        err |-> "none", done |-> 0, stacked |-> FALSE]) :
              call' = [call EXCEPT
                         !.out = [bees |-> st.bees, items |-> Len(st.items), err |-> st.err,
                                  origin |-> <<st.x, st.y>>,
                                  pos |-> BeePosition(st.x, st.y, call.args.dx, call.args.dy)],
                         !.done = TRUE]
    /\ CallFrame


\* Velocities a body may have (x, y in pixels per second; y grows downwards,
\* as the jump of the player shows), and the counters a sheep is looked at.
Velocities == {<<x, y>> : x \in {-80, 0, 80}, y \in {-JUMP_SPEED, 0, 60}}
SheepCounters == {0, 1, SHEEP_PERIOD - 1, SHEEP_PERIOD, 2 * SHEEP_PERIOD}

\* Ninedraft._jump: the player's velocity after the jump.
jump(v) == <<v[1] \div 2, -JUMP_SPEED>>

\* Sheep.step before Mob.step: the velocity the sheep sets; dx is the draw
\* of random.randint(-1, 1).
Sheep_step(n, v, dx) ==
    IF n % SHEEP_PERIOD = 0 THEN <<v[1] + dx * SHEEP_PUSH, v[2] + SHEEP_HOP>> ELSE v

SheepCalls ==
    { Called("sheep_step", [steps |-> n, velocity |-> v, dx |-> dx]) :
          n \in SheepCounters, v \in Velocities, dx \in {-1, 0, 1} }

SheepOut ==
    /\ call.fn = "sheep_step" /\ ~call.done
    /\ version = "v11"
    /\ call' = [call EXCEPT
                  !.out = [velocity |-> Sheep_step(call.args.steps, call.args.velocity,
                                                   call.args.dx),
                           jumped |-> jump(call.args.velocity)],
                  !.done = TRUE]
    /\ CallFrame


\* Effects handed to run_effect: the ones app.py's items and blocks name,
\* a crafting effect of a context nobody defines, an effect of another kind
\* and effects that are no pair; each with a crafting window open or not,
\* for a player who is hungry or not.
EffectStats == {<<MAX_FOOD, MAX_HEALTH - 50>>, <<MAX_FOOD - 50, MAX_HEALTH - 50>>}

EffectCalls ==
    { Called("run_effect", [effect |-> e, window |-> w, food |-> st[1],
                            health |-> st[2]]) :
          st \in EffectStats,
          e \in { <<"crafting", "basic">>, <<"crafting", "crafting_table">>,
                  <<"crafting", "smelting">>, <<"crafting", "anvil">>,
                  <<"food", 20>>, <<"health", 20>>, <<"sleep", 20>>,
                  <<"food">>, <<"crafting", "basic", "basic">>, << >> },
          w \in {"none", "craft"} }

EffectOut ==
    /\ call.fn = "run_effect" /\ ~call.done
    /\ call' = [call EXCEPT
                  !.out = run_effect(version, call.args.effect, call.args.food,
                                     call.args.health, call.args.window),
                  !.done = TRUE]
    /\ CallFrame

InitCalls ==
    /\ StillWorld
    /\ call \in ScatterCalls \cup MineCalls \cup FactoryCalls \cup HiveCalls \cup SheepCalls \cup EffectCalls

NextCalls == ScatterDrops \/ MineOut \/ CreateOut \/ HiveOut \/ SheepOut \/ EffectOut

SpecCalls == InitCalls /\ [][NextCalls]_vars

(***************************************************************************)
(* Properties of the commands, stated on the record of the last command    *)
(* and the state it left.                                                  *)
(***************************************************************************)
\* The tool in the selected slot, after a swing made with it.
ToolNow == hotbar[selected].item

\* How many items the stacks of a grid hold.
RECURSIVE SumQty(_, _)
SumQty(g, k) == IF k = 0 THEN 0 ELSE g[k].qty + SumQty(g, k - 1)
Holds(g) == SumQty(g, Len(g))

\* C1: a swing with a tool leaves its durability as it was when the swing
\* succeeded and lowers it by exactly 1 when it did not; the maximum
\* durability of the tool is the same after the swing, whatever the flag.
C1_AttackDurability ==
    last.op = "mine" /\ last.eff.cls = "ToolItem" =>
        /\ ToolNow.id = last.eff.id
        /\ ToolNow.maxdur = last.eff.maxdur
        /\ last.flag = "T" => ToolNow.dur = last.eff.dur
        /\ last.flag = "F" => ToolNow.dur = last.eff.dur - 1

\* A swing of a tool that failed has just been made.
C1_FailedSwing ==
    last.op = "mine" /\ last.eff.cls = "ToolItem" /\ last.flag = "F" /\ last.eff.dur > 0

\* C2: when mine_block raises the unknown-identifier error while it resolves
\* the drops, the world is as it was before the call: the block is still in
\* its cell, no dropped item was added, food and health are unchanged.
C2_MineErrorLeavesWorld ==
    last.op = "mine" /\ last.err = "KeyError" =>
        /\ grid[last.cell] = last.block
        /\ items = last.items
        /\ food = last.food
        /\ health = last.health

\* C3: when placing raises the unsupported-operation error, the grid and the
\* hotbar are as they were: the selected stack was not decremented.
C3_PlaceErrorLeavesHotbar ==
    last.op = "place" /\ last.err = "NotImplementedError" =>
        /\ grid[last.cell] = last.block
        /\ hotbar[selected] = last.stack

\* C4: when neither the hotbar nor the inventory accepts the item the player
\* ran into, the item stays in the world and both containers are unchanged.
C4_RefusedItemStays ==
    last.op = "collide" /\ ~CanAdd(last.hb, last.item) /\ ~CanAdd(last.inv, last.item) =>
        /\ items = last.items
        /\ hotbar = last.hb
        /\ inventory = last.inv

\* The player has run into an item that neither container had room for.
C4_BothRefused ==
    /\ last.op = "collide"
    /\ ~CanAdd(last.hb, last.item) /\ ~CanAdd(last.inv, last.item)
    /\ Len(items) > 0

\* C5: in app.py the item is offered to the hotbar first and to the inventory
\* only if the hotbar refuses; it leaves the world exactly when one of them
\* accepted it, and it is then in exactly one of them, never in both.
C5_HotbarThenInventory ==
    last.op = "collide" /\ version = "v11" =>
        LET hb_accepts == CanAdd(last.hb, last.item)
            inv_accepts == CanAdd(last.inv, last.item)
        IN  /\ hb_accepts => Holds(hotbar) = Holds(last.hb) + 1 /\ inventory = last.inv
            /\ ~hb_accepts /\ inv_accepts =>
                   Holds(inventory) = Holds(last.inv) + 1 /\ hotbar = last.hb
            /\ (Len(items) = Len(last.items) - 1) <=> (hb_accepts \/ inv_accepts)
            /\ ~(hb_accepts \/ inv_accepts) => items = last.items
            /\ Holds(hotbar) + Holds(inventory) + Len(items)
                   = Holds(last.hb) + Holds(last.inv) + Len(last.items)

\* The hotbar refused an item that the inventory then took; and an item both
\* had room for went to the hotbar.
C5_InventoryTookRefused ==
    /\ last.op = "collide" /\ version = "v11"
    /\ ~CanAdd(last.hb, last.item) /\ CanAdd(last.inv, last.item)
    /\ Holds(inventory) = Holds(last.inv) + 1

\* C6: the collision callback returns False on every call, whether the item
\* was picked up or the containers were full.
C6_CallbackReturnsFalse ==
    last.op = "collide" => last.ret = "False"

\* C7, as stated: a mined block costs 0.5 food when there was food, 1 health
\* when there was none, and an attempt that leaves the block unmined costs
\* nothing.
C7_MiningCostHalf ==
    last.op = "mine" =>
        IF ~last.mined THEN food = last.food /\ health = last.health
        ELSE IF last.food > 0 THEN food = last.food - FOOD_COST /\ health = last.health
        ELSE health = last.health - HEALTH_COST /\ food = last.food

\* C7, amended: a mined block costs the version's amount of food (0.5 in
\* app.py, 0.2 in app_v1.0.py) when there was food and health unchanged; when
\* the food was 0 it costs 1 health, or what health is left when that is
\* less, and food unchanged; an attempt that leaves the block unmined costs
\* nothing.
C7_MiningCost ==
    last.op = "mine" =>
        IF ~last.mined THEN food = last.food /\ health = last.health
        ELSE IF last.food > 0
        THEN /\ food = last.food - (IF version = "v11" THEN FOOD_COST ELSE FOOD_COST_V10)
             /\ health = last.health
        ELSE /\ health = Max(0, last.health - HEALTH_COST)
             /\ food = last.food

\* A block was mined by a player without food and with less than 1 health.
C7_MinedHungry ==
    last.op = "mine" /\ last.mined /\ last.food = 0 /\ last.health < HEALTH_COST /\ health = 0

\* C8, as stated: a step of a bee changes the health of the player only when
\* its step counter is a multiple of 15 and the player is within 32 pixels,
\* and then by exactly -0.5.
C8_BeeDamageExact ==
    last.op = "bee_step" =>
        IF last.bsteps % BEE_PERIOD = 0 /\ Dist2(last.bpos, last.ppos) <= BLOCK_SIZE * BLOCK_SIZE
        THEN health = last.health - BEE_DAMAGE
        ELSE health = last.health

\* C8, amended: a step of a bee changes the health of the player only when
\* its step counter is a multiple of 15 and the player is within 32 pixels;
\* the health is then 0.5 lower, or stays 0 when it was 0 already; on every
\* other step, and whenever the player is farther, it is unchanged.
C8_BeeDamage ==
    last.op = "bee_step" =>
        IF last.bsteps % BEE_PERIOD = 0 /\ Dist2(last.bpos, last.ppos) <= BLOCK_SIZE * BLOCK_SIZE
        THEN health = Max(0, last.health - BEE_DAMAGE)
        ELSE health = last.health

\* A bee on its fifteenth step has stung a player exactly 32 pixels away.
C8_StungAtRadius ==
    /\ last.op = "bee_step"
    /\ last.bsteps = BEE_PERIOD
    /\ Dist2(last.bpos, last.ppos) = BLOCK_SIZE * BLOCK_SIZE
    /\ health = last.health - BEE_DAMAGE

\* C9: on the 2x2 table, a column of two planks on the right with an empty
\* left column yields four sticks, and the same grid with one more plank on
\* the top left yields nothing.
C9_StickRecipe ==
    last.op = "craft" /\ crafter = "basic" =>
        /\ craftGrid = << <<"None", "plank">>, <<"None", "plank">> >>
              => craftOut = Stack(MkItem("SimpleItem", "stick"), 4)
        /\ craftGrid = << <<"plank", "plank">>, <<"None", "plank">> >>
              => craftOut = NoStack

\* The two planks were crafted into sticks on the 2x2 grid.
C9_SticksCrafted ==
    /\ last.op = "craft" /\ crafter = "basic"
    /\ craftGrid = << <<"None", "plank">>, <<"None", "plank">> >>
    /\ craftOut.qty = 4

\* C10: whatever the context of the open crafter and whatever its input
\* grid, at most one entry of the context's table has the grid as pattern:
\* no two entries of a table have equal patterns.
C10_OneEntryPerPattern ==
    crafter /= "none" =>
        \A i, j \in DOMAIN RecipesOf(crafter) :
            RecipesOf(crafter)[i].pattern = craftGrid /\ RecipesOf(crafter)[j].pattern = craftGrid
                => i = j

\* The table the source gives the crafter of a context.
ContextTable ==
    CASE crafter = "basic" -> CRAFTING_RECIPES_2x2
      [] crafter = "crafting_table" -> CRAFTING_RECIPES_3x3
      [] crafter = "smelting" -> FURNACE_RECIPES
      [] OTHER -> << >>

\* C11, as stated: for every recipe of every table, the recipe's pattern
\* with one item cell changed to another item, or with an item put into one
\* of its empty cells, produces no recipe output.
C11_ChangedGridCraftsNothing ==
    last.op = "craft" =>
        \A i \in DOMAIN ContextTable :
            SingleChange(ContextTable[i].pattern, craftGrid) => craftOut = NoStack

\* C11, amended: such a changed grid never produces the output of the recipe
\* it was made from; it produces no output at all unless it is, cell for
\* cell, the pattern of another entry of the table, and then that entry's.
C11_ChangedGridMissesRecipe ==
    last.op = "craft" =>
        \A i \in DOMAIN ContextTable :
            SingleChange(ContextTable[i].pattern, craftGrid) =>
                /\ craftOut /= ContextTable[i].out
                /\ \/ craftOut = NoStack
                   \/ \E j \in DOMAIN ContextTable :
                         /\ j /= i
                         /\ ContextTable[j].pattern = craftGrid
                         /\ craftOut = ContextTable[j].out
                /\ (\A j \in DOMAIN ContextTable : ContextTable[j].pattern /= craftGrid)
                      => craftOut = NoStack

\* The wood shovel's pattern with its upper stick changed to a plank was
\* submitted and crafted the wood sword.
C11_ShovelChangedToSword ==
    /\ last.op = "craft" /\ crafter = "crafting_table"
    /\ SingleChange(Shovel("plank"), craftGrid)
    /\ craftGrid = Sword("plank")
    /\ craftOut = Stack(create_item("v11", <<"sword", "wood">>), 1)

\* C12: for every number of item drops of one mined block and every draw of
\* the jitter, the positions mine_block gives the dropped items lie inside
\* the block's 32x32 cell and are pairwise different.
C12_DropsApart ==
    call.fn = "scatter" /\ call.done =>
        /\ \A k \in 1 .. 2 :
              /\ Abs(call.out[k][1] - CentreX(call.args.cell)) <= BLOCK_SIZE \div 2
              /\ Abs(call.out[k][2] - CentreY) <= BLOCK_SIZE \div 2
        /\ call.args.a /= call.args.b => call.out[1] /= call.out[2]

C14_OnlyKeyError ==
    call.fn \in {"create_item", "create_block"} /\ call.done =>
        \/ call.out.err = "none" /\ call.out.cls /= "none"
        \/ call.out.err = "KeyError" /\ call.out.cls = "none"

\* C15: in both versions, when an attempt leaves the block mined,
\* get_drops is handed the luck draw that mine was handed and the suitability
\* flag mine returned, and the mined block is no longer in its cell.
C15_DropsFromSuitability ==
    last.op = "mine" /\ last.mined =>
        /\ last.dropargs = <<last.mineargs[1], last.suitable>>
        /\ grid[last.cell] = NoBlock \/ grid[last.cell].hp = 0

\* The stack of the selected hotbar slot before the last command.
HeldBefore == IF selected = 0 THEN NoStack ELSE last.hb[selected]

\* A food item, or a tool with no durability left.
CannotAttack(item) ==
    item.cls = "FoodItem" \/ (item.cls = "ToolItem" /\ item.dur <= 0)

\* C16: on a mining attempt the effective item is the held item exactly when
\* a hotbar stack is selected and its item can attack, and is the hands
\* otherwise; a held food item or tool without durability is not the effective
\* item and the attempt leaves it, durability included, as it was.
C16_EffectiveItem ==
    last.op = "mine" =>
        /\ last.eff = HeldBefore.item <=>
              selected /= 0 /\ HeldBefore.qty > 0 /\ ~CannotAttack(HeldBefore.item)
        /\ last.eff /= HeldBefore.item => last.eff = Hands
        /\ CannotAttack(HeldBefore.item) => hotbar[selected] = HeldBefore

\* A mining attempt was made with a broken tool selected.
C16_BrokenToolHeld ==
    /\ last.op = "mine" /\ selected /= 0
    /\ HeldBefore.item.cls = "ToolItem" /\ HeldBefore.item.dur = 0
    /\ last.eff = Hands

\* C17: no command adds a block to a cell that holds one: a placement adds
\* its block only to a cell that was empty, and a block dropped by a mined
\* block is added when the mined block has left its cell.
C17_OneBlockPerCell ==
    /\ ~last.stacked
    /\ last.op = "place" /\ last.ret = "block" /\ last.err = "none" =>
          last.block = NoBlock /\ grid[last.cell] /= NoBlock
    /\ last.op = "place" /\ last.block /= NoBlock => grid[last.cell] = last.block
    /\ last.op = "mine" /\ last.mined /\ last.err = "none" /\ grid[last.cell] /= NoBlock =>
          \E k \in 1 .. Len(last.drops) : last.drops[k][1] = "block"

\* A mined block dropped a block, which now sits in the cell it left.
C17_BlockDroppedInPlace ==
    /\ last.op = "mine" /\ last.mined /\ last.err = "none"
    /\ \E k \in 1 .. Len(last.drops) : last.drops[k][1] = "block"
    /\ grid[last.cell] /= NoBlock

\* A place command that went through with a block item or a food item held.
PlacedHeld ==
    /\ last.op = "place" /\ last.err = "none"
    /\ last.stack.item.cls \in {"BlockItem", "FoodItem"}

\* No hotbar slot holds a stack of quantity 0.
NoEmptyStack == \A k \in HotbarSlots : hotbar[k].qty = 0 => hotbar[k] = NoStack

\* C18, as stated: in both versions such a place command takes exactly 1 from
\* the selected stack and empties the slot when nothing is left; no hotbar
\* slot ever holds a stack of quantity 0.
C18_PlaceTakesOne ==
    /\ PlacedHeld =>
          hotbar[selected] = IF last.stack.qty = 1 THEN NoStack
                             ELSE [last.stack EXCEPT !.qty = @ - 1]
    /\ NoEmptyStack

\* C18, amended: app.py does so; app_v1.0.py leaves the selected stack as it
\* was.  In both versions no hotbar slot ever holds a stack of quantity 0.
C18_PlaceTakesOneInApp ==
    /\ PlacedHeld =>
          hotbar[selected] = IF version = "v10" THEN last.stack
                             ELSE IF last.stack.qty = 1 THEN NoStack
                             ELSE [last.stack EXCEPT !.qty = @ - 1]
    /\ NoEmptyStack

\* The last item of the selected stack was placed and the slot is empty.
C18_LastOnePlaced ==
    PlacedHeld /\ last.stack.qty = 1 /\ hotbar[selected] = NoStack

HoneyInReach ==
    { c \in Cells : /\ grid[c].id = "honey"
                    /\ Dist2(<<CentreX(c), CentreY>>, last.bpos) <= 200 * 200 }

\* C20: on a step with the counter a multiple of 15 the bee steers to the
\* position of the honey block nearest to it among those within 200 pixels,
\* and to the player's position when there is none.
C20_SteersToNearestHoney ==
    last.op = "bee_step" /\ last.bsteps % 15 = 0 =>
        IF HoneyInReach = {} THEN last.aim = last.ppos
        ELSE \E c \in HoneyInReach :
                /\ last.aim = <<CentreX(c), CentreY>>
                /\ \A m \in HoneyInReach :
                      Dist2(<<CentreX(c), CentreY>>, last.bpos)
                          <= Dist2(<<CentreX(m), CentreY>>, last.bpos)

\* C21: a sheep's step leaves its velocity as it was unless its counter is a
\* multiple of 40; then it adds -150, 0 or 150 to the horizontal velocity
\* and a fixed amount to the vertical one, in the direction of the player's
\* jump (towards negative y).
C21_SheepHopsUp ==
    call.fn = "sheep_step" /\ call.done =>
        IF call.args.steps % 40 /= 0 THEN call.out.velocity = call.args.velocity
        ELSE /\ call.out.velocity[1] - call.args.velocity[1] \in {-150, 0, 150}
             /\ call.out.jumped[2] < 0
             /\ call.out.velocity[2] - call.args.velocity[2] < 0

\* Every pattern of the table has r rows of c cells.
PatternsAre(table, r, c) ==
    \A i \in DOMAIN table :
        /\ Len(table[i].pattern) = r
        /\ \A k \in 1 .. r : Len(table[i].pattern[k]) = c

\* C22: the patterns of the basic table are 2 rows of 2 cells, those of the
\* crafting-table table 3 rows of 3, those of the furnace table 2 rows of 1,
\* and these are the rows and columns of the crafter built for the context.
C22_PatternShapes ==
    crafter /= "none" =>
        /\ crafter = "basic" => PatternsAre(RecipesOf(crafter), 2, 2)
        /\ crafter = "crafting_table" => PatternsAre(RecipesOf(crafter), 3, 3)
        /\ crafter = "smelting" => PatternsAre(RecipesOf(crafter), 2, 1)
        /\ PatternsAre(RecipesOf(crafter), CrafterRows(crafter), CrafterColumns(crafter))
        /\ Len(craftGrid) = CrafterRows(crafter)
        /\ \A k \in DOMAIN craftGrid : Len(craftGrid[k]) = CrafterColumns(crafter)

\* The furnace's crafter is open and something was crafted in it.
C22_FurnaceCrafted ==
    crafter = "smelting" /\ last.op = "craft" /\ craftOut /= NoStack

\* The effects run_effect defines: a crafting effect of one of the three
\* contexts, and a food or health effect.
DefinedEffect(e) ==
    /\ Len(e) = 2
    /\ \/ e[1] = "crafting" /\ e[2] \in {"basic", "crafting_table", "smelting"}
       \/ e[1] \in {"food", "health"}

\* C23: for every effect that is not one of those, run_effect raises KeyError
\* and leaves the food, the health and the crafting window, open or not, as
\* they were.
C23_UnknownEffectRaises ==
    call.fn = "run_effect" /\ call.done /\ version = "v11"
        /\ ~DefinedEffect(call.args.effect) =>
            /\ call.out.err = "KeyError"
            /\ call.out.window = call.args.window
            /\ call.out.food = call.args.food
            /\ call.out.health = call.args.health

\* C24: a left click mines only a block that is within the held item's range
\* of the place the player is at when clicking (the flag _left_click reads is
\* the range predicate of the current position, target and held item).
C24_MinesWithinRange ==
    last.op = "mine" =>
        positions_in_range(playerPos, last.cell,
                           get_attack_range(ActiveItem(last.hb, selected)))

\* C25: a place command on an empty target with a held item whose place()
\* yields no drop leaves the selected stack as it was: no unit is taken from
\* it and the item stays in its slot.
C25_NoDropKeepsStack ==
    last.op = "place" /\ last.ret = "nothing" /\ last.stack.qty > 0 =>
        hotbar[selected] = last.stack

\* C26: a place command on an empty target while the selected hotbar slot
\* holds no stack raises no error (and changes nothing).
C26_EmptySlotPlacesNothing ==
    last.op = "place" /\ selected /= 0 /\ last.stack.qty = 0
        /\ hotbar[selected].qty = 0 =>
            last.err = "none"

\* The tools the player carries.
ToolsCarried ==
    { hotbar[k].item : k \in { j \in HotbarSlots : hotbar[j].item.cls = "ToolItem" } }
        \cup { inventory[k].item :
                   k \in { j \in InventoryCells : inventory[j].item.cls = "ToolItem" } }

\* C27: whatever was mined and selected, the durability of a tool made with
\* the durability d is one of 0..d.
C27_DurabilityWithinBounds ==
    \A t \in ToolsCarried : t.dur \in 0 .. t.maxdur

\* A swing has just worn a tool down to its last unit of durability.
C27_ToolWornOut ==
    /\ last.op = "mine"
    /\ \E k \in HotbarSlots :
           /\ hotbar[k].item.cls = "ToolItem"
           /\ hotbar[k].item.dur = 0
           /\ last.hb[k].item.dur = 1

\* Whether one of the drops of the last attempt is a block.
DroppedABlock == \E i \in 1 .. Len(last.drops) : last.drops[i][1] = "block"

\* C28: no block of the world is mined (a block that is_mined() was removed
\* by the attempt that mined it, so it drops once); the attempt that mines
\* the block empties its cell, unless one of its drops is a block; an attempt
\* that does not mine it leaves it in its cell and drops nothing.
C28_RemovedIffMined ==
    /\ \A c \in Cells : ~is_mined(grid[c])
    /\ last.op = "mine" =>
          IF last.mined
          THEN grid[last.cell] = NoBlock \/ DroppedABlock
          ELSE /\ grid[last.cell].id = last.block.id
               /\ grid[last.cell].hp >= last.block.hp
               /\ items = last.items

\* An attempt has mined a block: its cell is empty and its drops lie in the
\* world.
C28_MinedAndDropped ==
    /\ last.op = "mine" /\ last.mined
    /\ grid[last.cell] = NoBlock
    /\ Len(items) > Len(last.items)

\* Two stacks of the same item kind and quantity.
SameYield(s, t) == s.item.id = t.item.id /\ s.qty = t.qty

\* C29: any two entries of the open crafter's table that match the input grid
\* yield the same item kind and quantity, so that the stack a craft returns
\* is the same whichever matching entry the scan meets first.
C29_ScanOrderIrrelevant ==
    crafter /= "none" =>
        /\ \A i, j \in Matching(ContextTable, craftGrid) :
               SameYield(ContextTable[i].out, ContextTable[j].out)
        /\ last.op = "craft" =>
               \A i \in Matching(ContextTable, craftGrid) :
                   SameYield(craftOut, ContextTable[i].out)

\* A grid that two entries of the 3x3 table match was crafted: the wood
\* sword's.
C29_TwiceListedSwordCrafted ==
    /\ last.op = "craft" /\ crafter = "crafting_table"
    /\ Cardinality(Matching(ContextTable, craftGrid)) = 2
    /\ craftOut.item.id = "wood_sword"

\* C30: in both versions a food effect of strength s changes the food by s
\* and leaves the health when the food is below its maximum, and changes the
\* health by s and leaves the food when the food is at its maximum.
C30_FoodEffectStat ==
    call.fn = "run_effect" /\ call.done /\ Len(call.args.effect) = 2
        /\ call.args.effect[1] = "food" =>
            IF call.args.food < MAX_FOOD
            THEN /\ call.out.food = change_food(call.args.food, call.args.effect[2])
                 /\ call.out.health = call.args.health
            ELSE /\ call.out.health = change_health(call.args.health, call.args.effect[2])
                 /\ call.out.food = call.args.food

====
